---- MODULE Spec2Model ----
(***************************************************************************)
(* AudioCapture (src/Audio.py): device resolution, the capture callback    *)
(* that segments 50 ms blocks into utterances, the queue that hands them   *)
(* to the asynchronous consumer task, and stop().                          *)
(*                                                                         *)
(* Units: timestamps are integer milliseconds, RMS energy is in            *)
(* thousandths, sample counts are exact.  An audio array is modelled by    *)
(* its run-length form: a sequence of runs [id, frames], one run per       *)
(* captured block, id being the ordinal of the block.  A Python Optional   *)
(* is <<>> (None) or <<v>>.                                                *)
(***************************************************************************)
EXTENDS Integers, Sequences, FiniteSets, TLC

VARIABLES
    devices,             \* sd.query_devices(): sequence of [name, max_input_channels]
    default_device,      \* sd.default.device[1] as read by find_audio_device
    device_id,           \* self.device_id (requested id)
    resolved,            \* [called, value]: the last return value of find_audio_device
    stream,              \* self.stream: "none" | "opened" | "active" | "closed"
    is_capturing,        \* self.is_capturing
    audio_queue,         \* self.audio_queue: FIFO of arrays
    process_task,        \* self.process_task: "none" | "poll" (in audio_queue.get) |
                         \* "forward" | "sleep" (in the asyncio.sleep of an except
                         \* clause) | "ended" (the coroutine returned or raised) |
                         \* "cancelled" | "cancelled_get" (cancelled, its executor
                         \* thread still in get)
    inflight,            \* the arrays popped and being forwarded (calls of
                         \* process_audio_chunk_immediate that have not returned)
    audio_buffer,        \* self.audio_buffer: list of block arrays
    buffer_start_time,   \* self.buffer_start_time
    last_voice_time,     \* self.last_voice_time
    silence_start_time,  \* self.silence_start_time
    is_recording,        \* self.is_recording
    now,                 \* device clock: ADC time of the latest block, ms
    ngaps,               \* number of blocks that arrived after a 1 s gap
    nblocks,             \* number of non-empty blocks delivered so far
    feed,                \* "free" or the name of the scripted block sequence
    pos,                 \* number of scripted blocks delivered
    pushed,              \* history: every array put on audio_queue, with who put it
    span,                \* history: runs of the non-empty blocks seen since Idle -> Recording
    forwarded,           \* history: arrays handed to process_audio_chunk_immediate
    nfailed,             \* history: number of those calls that raised
    last_call,           \* history: the last producer-side call and what it did
    nstarts,             \* number of start_capture() calls (at most one, as in Main.py)
    nstops,              \* number of stop() calls
    start_returned,      \* None before start_capture() returns, then <<its return value>>
    stop_pc,             \* the statement a stop() call in progress stands at: "idle" (no
                         \* call in progress) | "check" (line 215) | "concat" (line 216) |
                         \* "cancel" (line 223) | "close" (line 226) | "raised" (the call
                         \* ended in an exception)
    run_start            \* history: timestamp of the first block of the current unbroken
                         \* run of non-empty silence blocks, None after a speech block

vars == <<devices, default_device, device_id, resolved, stream, is_capturing,
          audio_queue, process_task, inflight, audio_buffer, buffer_start_time,
          last_voice_time, silence_start_time, is_recording, now, ngaps, nblocks, feed,
          pos, pushed, span, forwarded, nfailed, last_call, nstarts, nstops,
          start_returned, stop_pc, run_start>>

deviceVars  == <<devices, default_device, device_id>>
segmentVars == <<audio_buffer, buffer_start_time, last_voice_time,
                 silence_start_time, is_recording>>

-----------------------------------------------------------------------------
(* Bounds of the exploration *)

MaxBlocks   == 8    \* non-empty blocks delivered in a free run
MaxGaps     == 2    \* blocks of a free run that arrive after a 1 s gap
MaxStops    == 2    \* stop() calls
MaxDevices  == 3    \* length of the device list in the resolution runs
MaxSilence  == 30   \* silence blocks of the "silence forever" script
MaxUtterances == 3  \* utterances whose way through the queue is followed

(* Program constants *)

sample_rate        == 16000   \* Config.sample_rate
VOICE_THRESHOLD    == 20      \* 0.02, in thousandths
SILENCE_LIMIT_MS   == 1000    \* silence_duration > 1.0
MIN_DURATION_TENTHS == 3      \* buffer_duration > 0.3
BLOCK_MS           == 50      \* blocksize = int(sample_rate * 0.05)
QUEUE_MAXSIZE      == 0       \* queue.Queue(): maxsize 0, no upper bound

None    == <<>>
Some(v) == <<v>>

blocksize == (sample_rate * BLOCK_MS) \div 1000

-----------------------------------------------------------------------------
(* Arrays *)

RECURSIVE size(_)
\* len(a) of an array in run-length form
size(a) == IF a = <<>> THEN 0 ELSE Head(a).frames + size(Tail(a))

RECURSIVE concatenate(_)
\* np.concatenate(list of arrays)
concatenate(arrays) ==
    IF arrays = <<>> THEN <<>> ELSE Head(arrays) \o concatenate(Tail(arrays))

\* indata of one callback: frames samples of block number id
Block(id, frames) == IF frames = 0 THEN <<>> ELSE <<[id |-> id, frames |-> frames]>>

Ids(a) == [i \in 1..Len(a) |-> a[i].id]

-----------------------------------------------------------------------------
(* find_audio_device *)

\* Device names the device layer may report
DeviceNames == {"Monitor of Built-in Audio", "HDA Intel ALSA", "USB Microphone",
                "HDMI Output"}

\* dev['name'].lower()
lower(name) ==
    CASE name = "Monitor of Built-in Audio" -> "monitor of built-in audio"
      [] name = "HDA Intel ALSA"            -> "hda intel alsa"
      [] name = "USB Microphone"            -> "usb microphone"
      [] name = "HDMI Output"               -> "hdmi output"
      [] OTHER                              -> name

patterns == <<"monitor", "loopback", "virtual", "alsa">>

\* p in name, for the names above
contains(name, p) ==
    <<name, p>> \in {<<"monitor of built-in audio", "monitor">>, <<"hda intel alsa", "alsa">>}

\* any(p in name for p in patterns)
any_pattern(name) == \E k \in 1..Len(patterns) : contains(name, patterns[k])

\* dev['max_input_channels'] > 0
has_input(dev) == dev.max_input_channels > 0

\* devices[i] for a Python index i (the list is 1-based here)
dev_at(devs, i) == devs[i + 1]

\* first index the enumerate() loop returns for a condition, None if the loop falls through
first_index(S) == IF S = {} THEN None ELSE Some(CHOOSE i \in S : \A j \in S : i <= j)

\* requested_ok without the input-channel test of line 42
requested_ok_any(devs, req) ==
    /\ req # None
    /\ 0 <= req[1] /\ req[1] < Len(devs)

\* lines 39-48: the requested id is used when it is in range and has input channels
requested_ok(devs, req) ==
    /\ req # None
    /\ 0 <= req[1] /\ req[1] < Len(devs)
    /\ has_input(dev_at(devs, req[1]))

\* line 55: the monitor/loopback scan's condition on one device
is_monitor(dev) == any_pattern(lower(dev.name)) /\ has_input(dev)

\* lines 51-57
monitor_scan(devs) == first_index({i \in 0..(Len(devs) - 1) : is_monitor(dev_at(devs, i))})

\* lines 66-69
input_scan(devs) == first_index({i \in 0..(Len(devs) - 1) : has_input(dev_at(devs, i))})

\* lines 60-63: devices[default] is evaluated for the message; a Python index
\* outside -len..len-1 raises IndexError, which line 73 turns into None
default_choice(devs, dflt) ==
    IF -Len(devs) <= dflt[1] /\ dflt[1] < Len(devs) THEN Some(dflt[1]) ELSE None

find_audio_device(devs, req, dflt) ==
    IF requested_ok(devs, req) THEN req
    ELSE IF monitor_scan(devs) # None THEN monitor_scan(devs)
    ELSE IF dflt # None THEN default_choice(devs, dflt)
    ELSE input_scan(devs)

-----------------------------------------------------------------------------
(* queue.Queue *)

\* Queue.full(): never when maxsize <= 0
full(q) == QUEUE_MAXSIZE > 0 /\ Len(q) >= QUEUE_MAXSIZE

\* lines 144-152: put_nowait, and on queue.Full get_nowait followed by put_nowait
callback_put(q, a) ==
    IF ~full(q) THEN Append(q, a)
    ELSE Append(Tail(q), a)

\* lines 218-221: put_nowait, queue.Full swallowed
stop_put(q, a) == IF ~full(q) THEN Append(q, a) ELSE q

-----------------------------------------------------------------------------
(* The capture callback, lines 86-162 *)

\* has_samples that lets a block without samples through
has_samples_always(indata) == TRUE

\* line 92
has_samples(indata) == size(indata) > 0

\* is_voice with >= in place of >
is_voice_or_equal(rms) == rms >= VOICE_THRESHOLD

\* line 106
is_voice(rms) == rms > VOICE_THRESHOLD

\* silence_expired with a limit of half a second
silence_expired_short(d) == d * 2 > SILENCE_LIMIT_MS

\* silence_expired with >= in place of >
silence_expired_or_equal(d) == d >= SILENCE_LIMIT_MS

\* line 135, second conjunct
silence_expired(d) == d > SILENCE_LIMIT_MS

\* long_enough with >= in place of >
long_enough_or_equal(n) == n * 10 >= MIN_DURATION_TENTHS * sample_rate

\* lines 140-142: len(combined_audio) / sample_rate > 0.3 (the float comparison
\* agrees with the exact one for integer operands of this size)
long_enough(n) == n * 10 > MIN_DURATION_TENTHS * sample_rate

\* line 122
append_voice(buf, a) == Append(buf, a)

\* append_silence that drops the silence block
append_silence_lossy(buf, a) == buf

\* append_silence that stores the block twice
append_silence_twice(buf, a) == Append(Append(buf, a), a)

\* line 162
append_silence(buf, a) == Append(buf, a)

\* reset_segment that leaves the buffer as it is
reset_segment_keep_buffer(cur) == [cur EXCEPT !.rec = FALSE, !.sil = None]

\* lines 156-159
reset_segment(cur) == [cur EXCEPT !.rec = FALSE, !.buf = <<>>, !.sil = None]

\* The segment state after one callback, as a record of the five fields and the queue
callback(indata, rms, t) ==
    LET cur == [buf |-> audio_buffer, start |-> buffer_start_time,
                voice |-> last_voice_time, sil |-> silence_start_time,
                rec |-> is_recording, q |-> audio_queue, put |-> None]
    IN
    IF ~has_samples(indata) THEN cur
    ELSE IF is_voice(rms) THEN
        [cur EXCEPT !.rec = TRUE,
                    !.buf = append_voice(IF is_recording THEN audio_buffer ELSE <<>>, indata),
                    !.start = IF is_recording THEN buffer_start_time ELSE Some(t),
                    !.voice = Some(t),
                    !.sil = None]
    ELSE IF is_recording THEN
        LET sst == IF silence_start_time = None THEN t ELSE silence_start_time[1]
            silence_duration == t - sst
        IN
        IF Len(audio_buffer) > 0 /\ silence_expired(silence_duration) THEN
            LET combined_audio == concatenate(audio_buffer) IN
            [reset_segment(cur) EXCEPT
                        !.q = IF long_enough(size(combined_audio))
                              THEN callback_put(audio_queue, combined_audio)
                              ELSE audio_queue,
                        !.put = IF long_enough(size(combined_audio))
                                THEN Some(combined_audio) ELSE None]
        ELSE
            [cur EXCEPT !.sil = Some(sst),
                        !.buf = append_silence(audio_buffer, indata)]
    ELSE cur

-----------------------------------------------------------------------------
(* Initial states *)

NoCall == [op |-> "none", put |-> None, rms |-> 0, frames |-> 0]

\* AudioCapture.__init__, lines 14-31
Constructed ==
    /\ resolved = [called |-> FALSE, value |-> None]
    /\ stream = "none"
    /\ is_capturing = FALSE
    /\ audio_queue = <<>>
    /\ process_task = "none"
    /\ inflight = None
    /\ audio_buffer = <<>>
    /\ buffer_start_time = None
    /\ last_voice_time = None
    /\ silence_start_time = None
    /\ is_recording = FALSE
    /\ now = 0 /\ ngaps = 0 /\ nblocks = 0 /\ pos = 0
    /\ pushed = <<>> /\ span = <<>> /\ forwarded = <<>> /\ nfailed = 0
    /\ last_call = NoCall
    /\ nstarts = 0 /\ nstops = 0
    /\ start_returned = None
    /\ stop_pc = "idle"
    /\ run_start = None

Dev(name, ch) == [name |-> name, max_input_channels |-> ch]

\* Two machines: one with a microphone as the default input, one with no device
Hosts ==
    { [devices |-> <<Dev("HDMI Output", 0), Dev("USB Microphone", 2)>>,
       default |-> Some(1), requested |-> None],
      [devices |-> <<>>, default |-> None, requested |-> None] }

Init ==
    /\ Constructed
    /\ feed = "free"
    /\ \E h \in Hosts :
          /\ devices = h.devices
          /\ default_device = h.default
          /\ device_id = h.requested

-----------------------------------------------------------------------------
(* start_capture, lines 77-187 *)

\* start_effect that marks the session capturing and creates the task before
\* the stream is started
start_effect_eager(id, fault) ==
    IF id = None \/ fault = "open"
    THEN [stream |-> stream, capturing |-> is_capturing, task |-> process_task,
          ret |-> FALSE]
    ELSE IF fault = "start"
    THEN [stream |-> "opened", capturing |-> TRUE, task |-> "poll", ret |-> FALSE]
    ELSE [stream |-> "active", capturing |-> TRUE, task |-> "poll", ret |-> TRUE]

\* What start_capture leaves behind and returns, for the resolved device id and
\* the fault met: "open" (sd.InputStream raises, line 165), "start"
\* (self.stream.start() raises, line 175) or "none"
start_effect(id, fault) ==
    IF id = None \/ fault = "open"                       \* lines 82-84, 184-187
    THEN [stream |-> stream, capturing |-> is_capturing, task |-> process_task,
          ret |-> FALSE]
    ELSE IF fault = "start"                              \* lines 165-175, 184-187
    THEN [stream |-> "opened", capturing |-> is_capturing, task |-> process_task,
          ret |-> FALSE]
    ELSE [stream |-> "active", capturing |-> TRUE, task |-> "poll", ret |-> TRUE]

StartCapture ==
    /\ nstarts = 0                              \* Main.py:244, called once per object
    /\ stop_pc = "idle"
    /\ nstarts' = nstarts + 1
    /\ \E fault \in {"none", "open", "start"} :
       LET id == find_audio_device(devices, device_id, default_device)
           e  == start_effect(id, fault)
       IN
       /\ resolved' = [called |-> TRUE, value |-> id]
       /\ stream' = e.stream
       /\ is_capturing' = e.capturing
       /\ process_task' = e.task
       /\ start_returned' = Some(e.ret)
       /\ last_call' = [NoCall EXCEPT !.op = IF e.ret THEN "start" ELSE "start_failed"]
    /\ UNCHANGED <<deviceVars, segmentVars, audio_queue, inflight, now, ngaps,
                   nblocks, feed, pos, pushed, span, forwarded, nfailed, nstops, stop_pc,
                   run_start>>

-----------------------------------------------------------------------------
(* One invocation of the callback by the stream *)

Deliver(indata, rms, t) ==
    LET r == callback(indata, rms, t) IN
    /\ audio_buffer' = r.buf
    /\ buffer_start_time' = r.start
    /\ last_voice_time' = r.voice
    /\ silence_start_time' = r.sil
    /\ is_recording' = r.rec
    /\ audio_queue' = r.q
    /\ pushed' = IF r.put = None THEN pushed
                 ELSE Append(pushed, [audio |-> r.put[1], by |-> "callback"])
    /\ span' = IF size(indata) = 0 THEN span
               ELSE IF ~is_recording /\ r.rec THEN indata
               ELSE IF is_recording THEN span \o indata
               ELSE span
    /\ last_call' = [op |-> "callback", put |-> r.put, rms |-> rms,
                     frames |-> size(indata)]
    /\ now' = t
    /\ nblocks' = IF size(indata) = 0 THEN nblocks ELSE nblocks + 1
    /\ run_start' = IF size(indata) = 0 THEN run_start
                    ELSE IF is_voice(rms) THEN None
                    ELSE IF run_start = None THEN Some(t)
                    ELSE run_start

RmsValues == {1, 20, 50}

\* A block of blocksize frames, BLOCK_MS or (after an input overflow) a whole
\* SILENCE_LIMIT_MS after the previous one
FreeCallback ==
    /\ feed = "free"
    /\ stream = "active"
    /\ nblocks < MaxBlocks
    /\ \E rms \in RmsValues, gap \in {BLOCK_MS, SILENCE_LIMIT_MS} :
          /\ gap = SILENCE_LIMIT_MS => ngaps < MaxGaps
          /\ ngaps' = IF gap = SILENCE_LIMIT_MS THEN ngaps + 1 ELSE ngaps
          /\ Deliver(Block(nblocks + 1, blocksize), rms, now + gap)
    /\ UNCHANGED <<deviceVars, resolved, stream, is_capturing, process_task,
                   inflight, feed, pos, forwarded, nfailed, nstarts, nstops,
                   start_returned, stop_pc>>

\* A callback that carries no samples (indata.size = 0)
EmptyCallback ==
    /\ stream = "active"
    /\ Deliver(Block(nblocks + 1, 0), 0, now)
    /\ UNCHANGED <<deviceVars, resolved, stream, is_capturing, process_task,
                   inflight, feed, pos, forwarded, nfailed, nstarts, nstops, ngaps,
                   start_returned, stop_pc>>

-----------------------------------------------------------------------------
(* stop, lines 210-232 *)

\* flush_needed that also applies the callback's minimum duration
flush_needed_min(rec, buf) == rec /\ Len(buf) > 0 /\ long_enough(size(concatenate(buf)))

\* line 215
flush_needed(rec, buf) == rec /\ Len(buf) > 0

\* lines 223-224: process_task.cancel(). The task ends at its await without
\* forwarding anything more; a get already handed to the executor (line 194)
\* is not interrupted and runs on in its thread
cancel(task) ==
    IF task = "poll" THEN {"cancelled", "cancelled_get"}
    ELSE IF task \in {"forward", "sleep"} THEN {"cancelled"}
    ELSE {task}

Stop ==
    /\ nstops < MaxStops
    /\ stop_pc = "idle"
    /\ nstops' = nstops + 1
    /\ is_capturing' = FALSE
    /\ LET combined_audio == concatenate(audio_buffer)
           put == flush_needed(is_recording, audio_buffer) /\ size(combined_audio) > 0
       IN
       /\ audio_queue' = IF put THEN stop_put(audio_queue, combined_audio)
                         ELSE audio_queue
       /\ pushed' = IF put /\ ~full(audio_queue)
                    THEN Append(pushed, [audio |-> combined_audio, by |-> "stop"])
                    ELSE pushed
       /\ last_call' = [NoCall EXCEPT !.op = "stop",
                           !.put = IF put /\ ~full(audio_queue)
                                   THEN Some(combined_audio) ELSE None]
    /\ process_task' \in cancel(process_task)
    /\ inflight' = None
    /\ stream' = IF stream = "none" THEN "none" ELSE "closed"
    /\ UNCHANGED <<deviceVars, resolved, segmentVars, now, ngaps, nblocks, feed,
                   pos, span, forwarded, nfailed, nstarts, start_returned, stop_pc,
                   run_start>>

-----------------------------------------------------------------------------
(* stop() statement by statement, beside the stream's callback thread, which *)
(* keeps delivering blocks until line 228                                    *)

\* line 212
StopBegin ==
    /\ nstops < MaxStops
    /\ stop_pc = "idle"
    /\ nstops' = nstops + 1
    /\ is_capturing' = FALSE
    /\ stop_pc' = "check"
    /\ UNCHANGED <<deviceVars, resolved, stream, audio_queue, process_task, inflight,
                   segmentVars, now, ngaps, nblocks, feed, pos, pushed, span,
                   forwarded, nfailed, last_call, nstarts, start_returned, run_start>>

\* line 215
StopCheck ==
    /\ stop_pc = "check"
    /\ stop_pc' = IF flush_needed(is_recording, audio_buffer) THEN "concat" ELSE "cancel"
    /\ UNCHANGED <<deviceVars, resolved, stream, is_capturing, audio_queue,
                   process_task, inflight, segmentVars, now, ngaps, nblocks, feed,
                   pos, pushed, span, forwarded, nfailed, last_call, nstarts, nstops,
                   start_returned, run_start>>

\* lines 216-221: np.concatenate of an empty list raises ValueError, which
\* nothing in stop() catches
StopFlush ==
    /\ stop_pc = "concat"
    /\ IF audio_buffer = <<>>
       THEN /\ stop_pc' = "raised"
            /\ last_call' = [NoCall EXCEPT !.op = "stop_raised"]
            /\ UNCHANGED <<audio_queue, pushed>>
       ELSE LET combined_audio == concatenate(audio_buffer)
                put == size(combined_audio) > 0
            IN
            /\ stop_pc' = "cancel"
            /\ audio_queue' = IF put THEN stop_put(audio_queue, combined_audio)
                              ELSE audio_queue
            /\ pushed' = IF put /\ ~full(audio_queue)
                         THEN Append(pushed, [audio |-> combined_audio, by |-> "stop"])
                         ELSE pushed
            /\ last_call' = [NoCall EXCEPT !.op = "stop",
                                !.put = IF put /\ ~full(audio_queue)
                                        THEN Some(combined_audio) ELSE None]
    /\ UNCHANGED <<deviceVars, resolved, stream, is_capturing, process_task,
                   inflight, segmentVars, now, ngaps, nblocks, feed, pos, span,
                   forwarded, nfailed, nstarts, nstops, start_returned, run_start>>

\* lines 223-224
StopCancel ==
    /\ stop_pc = "cancel"
    /\ stop_pc' = "close"
    /\ process_task' \in cancel(process_task)
    /\ inflight' = None
    /\ UNCHANGED <<deviceVars, resolved, stream, is_capturing, audio_queue,
                   segmentVars, now, ngaps, nblocks, feed, pos, pushed, span,
                   forwarded, nfailed, last_call, nstarts, nstops, start_returned, run_start>>

\* lines 226-232
StopClose ==
    /\ stop_pc = "close"
    /\ stop_pc' = "idle"
    /\ stream' = IF stream = "none" THEN "none" ELSE "closed"
    /\ UNCHANGED <<deviceVars, resolved, is_capturing, audio_queue, process_task,
                   inflight, segmentVars, now, ngaps, nblocks, feed, pos, pushed,
                   span, forwarded, nfailed, last_call, nstarts, nstops, start_returned,
                   run_start>>

-----------------------------------------------------------------------------
(* process_audio_queue, lines 189-208 *)

\* can_get that does not wait for the forward in progress
can_get_any(task) == task \in {"poll", "forward"}

\* lines 191-201: the loop calls audio_queue.get again only after the awaited
\* process_audio_chunk_immediate has returned
can_get(task) == task = "poll"

\* lines 194-201: audio_queue.get returned an array, and the task calls
\* process_audio_chunk_immediate with it. The task runs on the event loop, which
\* a stop() in progress occupies (Main.py:286 calls it without awaiting)
ConsumerGet ==
    /\ can_get(process_task)
    /\ stop_pc = "idle"
    /\ is_capturing
    /\ audio_queue # <<>>
    /\ inflight' = Append(inflight, Head(audio_queue))
    /\ audio_queue' = Tail(audio_queue)
    /\ process_task' = "forward"
    /\ UNCHANGED <<deviceVars, resolved, stream, is_capturing, segmentVars, now,
                   ngaps, nblocks, feed, pos, pushed, span, forwarded, nfailed, last_call,
                   nstarts, nstops, start_returned, stop_pc, run_start>>

\* after_forward that lets the exception end the coroutine
after_forward_fatal(outcome) == IF outcome = "raised" THEN "ended" ELSE "poll"

\* lines 199-208: after process_audio_chunk_immediate returns the loop goes
\* back to line 191; when it raises, line 206 catches the exception and the
\* task sleeps 0.1 s before going back
after_forward(outcome) == IF outcome = "raised" THEN "sleep" ELSE "poll"

\* lines 203-205: queue.Empty is caught and the task sleeps 0.01 s
after_timeout(task) == "sleep"

\* lines 199-208: process_audio_chunk_immediate returned or raised
ConsumerForward ==
    /\ process_task = "forward"
    /\ stop_pc = "idle"
    /\ forwarded' = IF size(Head(inflight)) > 0 THEN Append(forwarded, Head(inflight))
                    ELSE forwarded
    /\ inflight' = Tail(inflight)
    /\ \E outcome \in {"returned", "raised"} :
          /\ process_task' = after_forward(outcome)
          /\ nfailed' = IF outcome = "raised" THEN nfailed + 1 ELSE nfailed
    /\ UNCHANGED <<deviceVars, resolved, stream, is_capturing, audio_queue,
                   segmentVars, now, ngaps, nblocks, feed, pos, pushed, span,
                   last_call, nstarts, nstops, start_returned, stop_pc, run_start>>

\* lines 194-197, 203-205: audio_queue.get(timeout=0.1) found the queue empty
\* for 0.1 s and raised queue.Empty
ConsumerTimeout ==
    /\ process_task = "poll"
    /\ stop_pc = "idle"
    /\ audio_queue = <<>>
    /\ process_task' = after_timeout(process_task)
    /\ UNCHANGED <<deviceVars, resolved, stream, is_capturing, audio_queue, inflight,
                   segmentVars, now, ngaps, nblocks, feed, pos, pushed, span,
                   forwarded, nfailed, last_call, nstarts, nstops, start_returned,
                   stop_pc, run_start>>

\* lines 205, 208, 191: the sleep is over and the loop tests is_capturing
ConsumerWake ==
    /\ process_task = "sleep"
    /\ stop_pc = "idle"
    /\ process_task' = IF is_capturing THEN "poll" ELSE "ended"
    /\ UNCHANGED <<deviceVars, resolved, stream, is_capturing, audio_queue, inflight,
                   segmentVars, now, ngaps, nblocks, feed, pos, pushed, span,
                   forwarded, nfailed, last_call, nstarts, nstops, start_returned,
                   stop_pc, run_start>>

\* lines 194-197 after a cancel: the executor thread's audio_queue.get(timeout=0.1)
\* returns an array nobody awaits any more, or times out
OrphanGet ==
    /\ process_task = "cancelled_get"
    /\ process_task' = "cancelled"
    /\ audio_queue' = IF audio_queue = <<>> THEN audio_queue ELSE Tail(audio_queue)
    /\ UNCHANGED <<deviceVars, resolved, stream, is_capturing, inflight,
                   segmentVars, now, ngaps, nblocks, feed, pos, pushed, span,
                   forwarded, nfailed, last_call, nstarts, nstops, start_returned, stop_pc,
                   run_start>>

Next ==
    \/ StartCapture
    \/ FreeCallback
    \/ EmptyCallback
    \/ Stop
    \/ ConsumerGet
    \/ ConsumerForward
    \/ ConsumerTimeout
    \/ ConsumerWake
    \/ OrphanGet

Spec == Init /\ [][Next]_vars

-----------------------------------------------------------------------------
(* Scripted block sequences: 50 ms blocks, timestamps 0.05 s apart,          *)
(* speech blocks of RMS 0.05 and silence blocks of RMS 0.001                 *)

Rep(n, rms) == [i \in 1..n |-> rms]

ScriptA  == Rep(8, 50) \o Rep(24, 1)                              \* 400 ms speech, 1.2 s silence
ScriptB  == Rep(4, 50) \o Rep(MaxSilence, 1)                      \* 200 ms speech, long silence
ScriptC  == Rep(8, 50) \o Rep(12, 1) \o Rep(8, 50) \o Rep(24, 1)  \* speech, 0.6 s gap, speech, silence
ScriptD  == Rep(10, 50)                                           \* 500 ms speech, then stop()
ScriptAA == ScriptA \o ScriptA                                    \* two utterances in a row

Scenarios == {"A", "B", "C", "D", "AA"}

Script(f) ==
    CASE f = "A"  -> ScriptA
      [] f = "B"  -> ScriptB
      [] f = "C"  -> ScriptC
      [] f = "D"  -> ScriptD
      [] f = "AA" -> ScriptAA
      [] OTHER    -> <<>>

ScenarioInit ==
    /\ Constructed
    /\ feed \in Scenarios
    /\ devices = <<Dev("HDMI Output", 0), Dev("USB Microphone", 2)>>
    /\ default_device = Some(1)
    /\ device_id = None

ScriptedCallback ==
    /\ feed \in Scenarios
    /\ stream = "active"
    /\ pos < Len(Script(feed))
    /\ pos' = pos + 1
    /\ Deliver(Block(nblocks + 1, blocksize), Script(feed)[pos + 1],
               IF nblocks = 0 THEN 0 ELSE now + BLOCK_MS)
    /\ UNCHANGED <<deviceVars, resolved, stream, is_capturing, process_task,
                   inflight, feed, forwarded, nfailed, nstarts, nstops, ngaps,
                   start_returned, stop_pc>>

ScenarioNext ==
    \/ StartCapture
    \/ ScriptedCallback
    \/ Stop
    \/ ConsumerGet
    \/ ConsumerForward
    \/ ConsumerTimeout
    \/ ConsumerWake
    \/ OrphanGet

SpecScenario == ScenarioInit /\ [][ScenarioNext]_vars

\* The scripted runs with the event loop's scheduling: a task that is ready to
\* run (its get returned, its awaited call finished, its sleep is over) is
\* resumed
SpecLive ==
    /\ ScenarioInit
    /\ [][ScenarioNext]_vars
    /\ WF_vars(ConsumerGet)
    /\ WF_vars(ConsumerForward)
    /\ WF_vars(ConsumerWake)

\* The scripted runs with stop() interleaved, statement by statement, with the
\* callback thread
RaceNext ==
    \/ StartCapture
    \/ ScriptedCallback
    \/ StopBegin
    \/ StopCheck
    \/ StopFlush
    \/ StopCancel
    \/ StopClose
    \/ ConsumerGet
    \/ ConsumerForward
    \/ ConsumerTimeout
    \/ ConsumerWake
    \/ OrphanGet

SpecRace == ScenarioInit /\ [][RaceNext]_vars

-----------------------------------------------------------------------------
(* Device resolution on its own: every device list up to MaxDevices,         *)
(* every requested id, every default the device layer may report             *)

DeviceLists ==
    UNION { [1..n -> {Dev(nm, ch) : nm \in DeviceNames, ch \in {0, 2}}] : n \in 0..MaxDevices }

ResolveInit ==
    /\ Constructed
    /\ feed = "resolve"
    /\ devices \in DeviceLists
    /\ device_id \in {None} \cup {Some(i) : i \in -1..MaxDevices}
    /\ default_device \in {None} \cup {Some(i) : i \in -1..(Len(devices) - 1)}

Resolve ==
    /\ feed = "resolve"
    /\ ~resolved.called
    /\ resolved' = [called |-> TRUE,
                    value |-> find_audio_device(devices, device_id, default_device)]
    /\ UNCHANGED <<deviceVars, stream, is_capturing, audio_queue, process_task,
                   inflight, segmentVars, now, ngaps, nblocks, feed, pos, pushed,
                   span, forwarded, nfailed, last_call, nstarts, nstops, start_returned,
                   stop_pc, run_start>>

SpecResolve == ResolveInit /\ [][Resolve]_vars

-----------------------------------------------------------------------------
(* Properties *)

CallbackPushes == SelectSeq(pushed, LAMBDA e : e.by = "callback")
StopPushes     == SelectSeq(pushed, LAMBDA e : e.by = "stop")

\* duration of an array in milliseconds is size * 1000 / sample_rate; the
\* comparisons below are cross-multiplied to stay in the integers
LongerThanMs(a, ms)  == size(a) * 1000 > ms * sample_rate
AtLeastMs(a, ms)     == size(a) * 1000 >= ms * sample_rate
AtMostMs(a, ms)      == size(a) * 1000 <= ms * sample_rate

\* C1: every utterance the callback puts on the queue (stop()'s flush excluded)
\* lasts strictly more than 0.3 s, len(samples)/sample_rate > 0.3.
C1_CallbackUtteranceLongerThanMinimum ==
    \A i \in 1..Len(pushed) :
        pushed[i].by = "callback" => LongerThanMs(pushed[i].audio, 300)

\* C1 witness: the callback has pushed an utterance of seven blocks (0.35 s),
\* the shortest one that passes the minimum.
C1_Witness ==
    \E i \in 1..Len(pushed) :
        /\ pushed[i].by = "callback"
        /\ size(pushed[i].audio) = 7 * blocksize

\* C2: the utterance the callback emits is exactly the non-empty blocks seen
\* since the Idle -> Recording transition, up to but not including the silence
\* block that triggered the emission: same blocks, same order, each once, and
\* so the same number of samples.
C2_UtteranceIsAllAppendedBlocks ==
    (last_call.op = "callback" /\ last_call.put # None) =>
        /\ Len(span) >= 2
        /\ last_call.put[1] = SubSeq(span, 1, Len(span) - 1)
        /\ size(last_call.put[1]) = size(span) - span[Len(span)].frames

\* C2 witness: the callback has just emitted an utterance of at least seven blocks.
C2_Witness ==
    /\ last_call.op = "callback"
    /\ last_call.put # None
    /\ Len(last_call.put[1]) >= 7
    /\ Len(span) = Len(last_call.put[1]) + 1

\* C3: the handoff queue holds at most one pending utterance in every reachable
\* state (stated here for runs without stop(), where only the callback pushes).
C3_AtMostOnePending ==
    nstops = 0 => Len(audio_queue) <= 1

\* C4: stop() called right after stop() pushes nothing.
C4_SecondStopPushesNothing ==
    [][(last_call.op = "stop" /\ nstops' = nstops + 1) => pushed' = pushed]_vars

\* C5: a stop() call made while recording with a non-empty buffer pushes exactly
\* one utterance, made of all buffered blocks in order, whatever its duration and
\* whatever silence has elapsed; a stop() call made while idle or with an empty
\* buffer pushes nothing.
C5_FlushOnStop ==
    [][nstops' = nstops + 1 =>
          IF is_recording /\ audio_buffer # <<>>
          THEN /\ Len(pushed') = Len(pushed) + 1
               /\ SubSeq(pushed', 1, Len(pushed)) = pushed
               /\ pushed'[Len(pushed')].by = "stop"
               /\ Ids(pushed'[Len(pushed')].audio) =
                      [i \in 1..Len(audio_buffer) |-> audio_buffer[i][1].id]
               /\ size(pushed'[Len(pushed')].audio) = Len(audio_buffer) * blocksize
               /\ audio_queue' = Append(audio_queue, pushed'[Len(pushed')].audio)
          ELSE pushed' = pushed /\ audio_queue' = audio_queue]_vars

\* C5 witness: scenario D, stop() after 500 ms of speech and no silence has
\* flushed one utterance of 0.5 s.
C5_Witness ==
    /\ feed = "D" /\ pos = Len(ScriptD) /\ nstops = 1
    /\ last_call.op = "stop"
    /\ last_call.put # None
    /\ size(last_call.put[1]) * 2 = sample_rate
    /\ Len(StopPushes) = 1 /\ Len(CallbackPushes) = 0

\* C6 as stated: after scenario A (400 ms speech, 1.2 s silence) the callback
\* has emitted exactly one utterance, of 0.35 s to 0.45 s.
C6_ScenarioA_Original ==
    (feed = "A" /\ pos = Len(ScriptA)) =>
        /\ Len(CallbackPushes) = 1
        /\ AtLeastMs(CallbackPushes[1].audio, 350)
        /\ AtMostMs(CallbackPushes[1].audio, 450)

\* C6 amended: after scenario A the callback has emitted exactly one utterance;
\* it holds the 8 speech blocks and the 21 silence blocks retained before the
\* hysteresis fired, about 1.45 s (1.40 s to 1.50 s).
C6_ScenarioA ==
    (feed = "A" /\ pos = Len(ScriptA)) =>
        /\ Len(CallbackPushes) = 1
        /\ Ids(CallbackPushes[1].audio) = [i \in 1..29 |-> i]
        /\ AtLeastMs(CallbackPushes[1].audio, 1400)
        /\ AtMostMs(CallbackPushes[1].audio, 1500)

\* C6 witness: scenario A has been played to its end and the utterance emitted.
C6_Witness ==
    /\ feed = "A" /\ pos = Len(ScriptA)
    /\ Len(CallbackPushes) = 1
    /\ size(CallbackPushes[1].audio) = 29 * blocksize

\* C7: in scenario B (200 ms speech, then silence) the callback never pushes
\* an utterance.
C7_ScenarioB_NoUtterance ==
    feed = "B" => Len(CallbackPushes) = 0

ValidRequest ==
    /\ device_id # None
    /\ device_id[1] \in 0..(Len(devices) - 1)
    /\ devices[device_id[1] + 1].max_input_channels >= 1
MonitorIds ==
    {i \in 0..(Len(devices) - 1) :
        /\ \E k \in 1..Len(patterns) : contains(lower(devices[i + 1].name), patterns[k])
        /\ devices[i + 1].max_input_channels >= 1}
InputIds == {i \in 0..(Len(devices) - 1) : devices[i + 1].max_input_channels >= 1}
IsLowest(v, S) == v # None /\ v[1] \in S /\ \A j \in S : v[1] <= j
\* the device layer reports no default, or a default that names a listed device
DefaultNamesDevice ==
    default_device = None \/ default_device[1] \in 0..(Len(devices) - 1)

C10_PushedIsPending ==
    [][(Len(pushed') = Len(pushed) + 1 /\ pushed'[Len(pushed')].by = "callback") =>
          audio_queue' = <<pushed'[Len(pushed')].audio>>]_vars

\* C11: the consumer forwards one utterance at a time and in the order the
\* utterances were pushed: at most one call of process_audio_chunk_immediate is
\* in progress, and the k-th utterance handed to it is the k-th one pushed.
C11_OneAtATimeInOrder ==
    /\ Len(inflight) <= 1
    /\ Len(forwarded \o inflight) <= Len(pushed)
    /\ \A k \in 1..Len(forwarded \o inflight) :
           (forwarded \o inflight)[k] = pushed[k].audio

\* C11 witness: two utterances were pushed and both have been forwarded, the
\* first one first.
C11_Witness ==
    /\ Len(forwarded) = 2
    /\ Len(CallbackPushes) = 2
    /\ forwarded[1] = pushed[1].audio /\ forwarded[2] = pushed[2].audio
    /\ forwarded[1] # forwarded[2]

\* C12: stop() first stops the hardware callbacks, then flushes, then cancels
\* the consumer: from the moment stop() has cleared is_capturing until it
\* returns, the segmenter processes no block.
C12_CallbacksStoppedFirst ==
    [][(stop_pc \in {"check", "concat", "cancel", "close"}) => (nblocks' = nblocks)]_vars

Forwarded(a) == \E k \in 1..Len(forwarded) : forwarded[k] = a

\* C13: the utterance stop() flushes is forwarded: the consumer task does not
\* end while that utterance is still in the queue, nor is the utterance popped
\* without being forwarded. Once the task has ended, every array stop() pushed
\* has been handed to process_audio_chunk_immediate.
C13_FlushedUtteranceForwarded ==
    process_task = "cancelled" =>
        \A i \in 1..Len(pushed) : pushed[i].by = "stop" => Forwarded(pushed[i].audio)

\* C14: a start_capture() that fails returns False and leaves the object
\* inactive: is_capturing stays False, no task exists, and nothing is ever put
\* on the queue; start_capture() fails whenever no device is resolved.
C14_FailedStartLeavesInactive ==
    /\ start_returned = Some(FALSE) =>
          /\ ~is_capturing
          /\ process_task = "none"
          /\ pushed = <<>> /\ audio_queue = <<>>
          /\ stream # "active"
    /\ start_returned # None /\ resolved.value = None => start_returned = Some(FALSE)
    /\ start_returned # None /\ stream \in {"none", "opened"} => start_returned = Some(FALSE)

\* C14 witness: a device was resolved, the stream failed to start, and stop()
\* has run on the failed object.
C14_Witness ==
    /\ start_returned = Some(FALSE)
    /\ resolved.value # None
    /\ nstops = 1
    /\ ~is_capturing /\ process_task = "none"

\* C15: the buffer of the utterance in progress is bounded whatever the block
\* sequence: it never comes to hold every block of a run as long as the
\* exploration allows.
C15_BufferBounded ==
    Len(audio_buffer) < MaxBlocks

\* C16: after every callback and every stop(), the buffer is non-empty only if
\* is_recording is True, and silence_start_time is set only if is_recording is
\* True and the latest non-empty block was classified as silence.
C16_SegmentStateInvariant ==
    /\ audio_buffer # <<>> => is_recording
    /\ silence_start_time # None => is_recording /\ run_start # None

\* C16 witness: stop() has returned on a recording whose trailing-silence
\* countdown is running.
C16_Witness ==
    /\ last_call.op = "stop"
    /\ is_recording /\ audio_buffer # <<>>
    /\ silence_start_time # None /\ run_start # None

\* C17: the segment state is empty (is_recording False, buffer empty,
\* silence_start_time unset) right after the callback emits or discards a span
\* and right after stop() returns.
C17_StateResetAfterStop ==
    /\ last_call.op = "stop" =>
          ~is_recording /\ audio_buffer = <<>> /\ silence_start_time = None
    /\ last_call.op = "callback" /\ last_call.put # None =>
          ~is_recording /\ audio_buffer = <<>> /\ silence_start_time = None

\* C18: while recording, a speech block clears silence_start_time, and the
\* callback ends a recording only on a silence block whose timestamp is more
\* than 1.0 s after that of the first block of the unbroken run of silence
\* blocks it belongs to; exactly 1.0 s does not end it.
C18_Hysteresis ==
    [][/\ (is_recording /\ nblocks' = nblocks + 1 /\ is_voice(last_call'.rms))
            => (silence_start_time' = None /\ is_recording')
       /\ (is_recording /\ ~is_recording')
            => /\ nblocks' = nblocks + 1
               /\ ~is_voice(last_call'.rms)
               /\ run_start # None /\ run_start' = run_start
               /\ now' - run_start[1] > SILENCE_LIMIT_MS
       /\ (is_recording /\ nblocks' = nblocks + 1 /\ ~is_voice(last_call'.rms)
             /\ run_start # None /\ now' - run_start[1] <= SILENCE_LIMIT_MS)
            => is_recording'
      ]_vars

\* C18 witness: a silence block stamped exactly 1.0 s after the first block of
\* its run was appended to the buffer, and the recording goes on.
C18_Witness ==
    /\ is_recording /\ last_call.op = "callback" /\ last_call.frames > 0
    /\ ~is_voice(last_call.rms)
    /\ run_start # None /\ silence_start_time = run_start
    /\ now - run_start[1] = SILENCE_LIMIT_MS
    /\ Len(audio_buffer) >= 3

\* C19: a callback that carries no samples changes neither is_recording, the
\* buffer, last_voice_time, silence_start_time nor the queue.
C19_EmptyBlockNoOp ==
    [][(last_call' # last_call /\ last_call'.op = "callback" /\ last_call'.frames = 0)
          => UNCHANGED <<is_recording, audio_buffer, last_voice_time,
                         silence_start_time, buffer_start_time, audio_queue, pushed>>
      ]_vars

\* C19 witness: a callback without samples arrived while a recording was in its
\* trailing silence.
C19_Witness ==
    /\ last_call.op = "callback" /\ last_call.frames = 0
    /\ is_recording /\ audio_buffer # <<>> /\ silence_start_time # None

\* C20: a block whose RMS equals the threshold is silence: when idle it starts no
\* recording, and when recording it starts or continues the trailing-silence
\* countdown (which may expire on it) and never clears it as speech does.
C20_ThresholdIsSilence ==
    [][(nblocks' = nblocks + 1 /\ last_call'.rms = VOICE_THRESHOLD)
          => /\ ~is_recording =>
                  /\ ~is_recording'
                  /\ UNCHANGED <<audio_buffer, silence_start_time, audio_queue>>
             /\ is_recording =>
                  /\ last_voice_time' = last_voice_time
                  /\ IF is_recording'
                     THEN silence_start_time' =
                             IF silence_start_time = None THEN Some(now')
                             ELSE silence_start_time
                     ELSE /\ silence_start_time # None
                          /\ now' - silence_start_time[1] > SILENCE_LIMIT_MS
      ]_vars

\* C20 witness: a block at exactly the threshold started the countdown of a
\* recording.
C20_Witness ==
    /\ last_call.op = "callback" /\ last_call.frames > 0
    /\ last_call.rms = VOICE_THRESHOLD
    /\ is_recording /\ silence_start_time = Some(now)

\* C21: while the object is capturing the consumer loop keeps running through
\* queue.Empty timeouts and through exceptions of the forward: the k-th array
\* pushed while capturing is eventually handed to
\* process_audio_chunk_immediate, unless capturing ends first.
C21_ConsumerKeepsRunning ==
    \A k \in 1..MaxUtterances :
        (is_capturing /\ Len(pushed) >= k) ~> (~is_capturing \/ Len(forwarded) >= k)

\* C21 witness: the forward of the first utterance raised, the queue ran empty
\* in between, and the second utterance was forwarded all the same.
C21_Witness ==
    /\ is_capturing
    /\ Len(pushed) = 2 /\ Len(forwarded) = 2
    /\ forwarded[2] = pushed[2].audio
    /\ nfailed = 2
    /\ process_task = "sleep"

BlockIds(a) == {a[k].id : k \in 1..Len(a)}

\* C22: no audio is delivered twice: whatever the interleaving of callbacks and
\* stop() calls, the samples of a captured block are in at most one of the
\* arrays put on the queue.
C22_NoBlockPushedTwice ==
    \A i, j \in 1..Len(pushed) :
        i # j => BlockIds(pushed[i].audio) \cap BlockIds(pushed[j].audio) = {}

\* C23: stop() runs to its end, stopping and closing the stream, whatever the
\* callback thread does meanwhile: no call of stop() ends in an exception.
C23_StopCompletes ==
    stop_pc # "raised"

\* C24: an id returned by find_audio_device is an index of the device list and
\* names a device with input channels, and without a default input device the
\* scan for the first device with input channels decides.
C24_ResolvedIdIsInputDevice ==
    resolved.called =>
        /\ resolved.value # None =>
              /\ 0 <= resolved.value[1] /\ resolved.value[1] < Len(devices)
              /\ has_input(dev_at(devices, resolved.value[1]))
        /\ ( /\ ~requested_ok(devices, device_id)
             /\ monitor_scan(devices) = None
             /\ (default_device = None \/ default_device[1] < 0) )
              => resolved.value = input_scan(devices)

====
